---- MODULE Spec2Model ----
(***************************************************************************)
(* State-machine model of kobuki::DiffDrive (src/driver/diff_drive.cpp):   *)
(* odometry from encoder ticks and firmware timestamps, and translation of *)
(* velocity commands into the firmware's (speed, radius) pair.             *)
(*                                                                         *)
(* Units.  C++ doubles are modelled exactly:                               *)
(*   - wheel angles are integers in micro-radians, tick_to_rad being the   *)
(*     tick-to-radian factor 0.00071674029 rounded to 717 micro-radians;   *)
(*   - last_diff_time is an integer number of milliseconds (the code       *)
(*     stores milliseconds / 1000.0f);                                     *)
(*   - every other double is a rational [n, d] in lowest terms, d > 0;     *)
(*     d = 0 stands for the non-finite result of a division by zero        *)
(*     (n = 0: NaN, n = 1: +Inf, n = -1: -Inf).  Wheel velocities and pose *)
(*     rates are therefore in micro-units per millisecond.                 *)
(***************************************************************************)
EXTENDS Integers, Sequences, FiniteSets, TLC

\* ------------------------------------------------------------------------
\* Exact arithmetic standing for the C++ double arithmetic
\* ------------------------------------------------------------------------

Abs(x) == IF x < 0 THEN -x ELSE x

Sgn(x) == IF x < 0 THEN -1 ELSE IF x > 0 THEN 1 ELSE 0

RECURSIVE GCD(_, _)
GCD(a, b) == IF b = 0 THEN a ELSE GCD(b, a % b)

\* the rational n/d (d # 0) in lowest terms with a positive denominator
Rat(n, d) ==
  LET g == GCD(Abs(n), Abs(d))
  IN  [n |-> Sgn(d) * (n \div g), d |-> Abs(d) \div g]

RatInt(k) == [n |-> k, d |-> 1]

IsFinite(a) == a.d # 0

RatNeg(a) == [n |-> -a.n, d |-> a.d]

RatAbs(a) == [n |-> Abs(a.n), d |-> a.d]

\* a * b, cancelling crosswise before multiplying
RatMul(a, b) ==
  LET g1 == GCD(Abs(a.n), b.d)
      g2 == GCD(Abs(b.n), a.d)
  IN  [n |-> (a.n \div g1) * (b.n \div g2), d |-> (a.d \div g2) * (b.d \div g1)]

\* a / b; a division by zero gives the IEEE-754 result (NaN or a signed infinity)
RatDiv(a, b) ==
  IF b.n = 0 THEN [n |-> Sgn(a.n), d |-> 0]
  ELSE RatMul(a, [n |-> Sgn(b.n) * b.d, d |-> Abs(b.n)])

RatAdd(a, b) ==
  LET g == GCD(a.d, b.d)
  IN  Rat(a.n * (b.d \div g) + b.n * (a.d \div g), (a.d \div g) * b.d)

RatSub(a, b) == RatAdd(a, RatNeg(b))

RatLess(a, b) == a.n * b.d < b.n * a.d

RatLeq(a, b) == a.n * b.d <= b.n * a.d

\* ------------------------------------------------------------------------
\* Program constants
\* ------------------------------------------------------------------------

\* bias(0.485): tread width [m]
bias == Rat(485, 1000)

\* wheel_radius(0.205) [m]
wheel_radius == Rat(205, 1000)

\* tick_to_rad(0.00071674029f), in micro-radians per tick
tick_to_rad == 717

\* const double epsilon = 0.0001
epsilon == Rat(1, 10000)

\* the mask 0xffff keeps a value modulo 2^16
TwoTo16 == 65536

SHRT_MAX == 32767

SHRT_MIN == -32768

\* ------------------------------------------------------------------------
\* Bounds of the model
\* ------------------------------------------------------------------------

\* public operations invoked in one behaviour of Spec, of SpecOdom, of SpecCmd
MaxCalls == 3

MaxOdomCalls == 3

MaxCmdCalls == 2

Instances == {"a", "b"}

Threads == {"odom", "cmd"}

NoThread == "none"

\* raw 16-bit encoder values: zero, the sign boundary and the top of the range
TickVals == {0, 32768, 65535}

\* raw 16-bit firmware timestamps [ms], on both sides of the wrap
TimeStamps == {10, 65530}

\* <<left_encoder, right_encoder>> pairs: each wheel steps between any two of TickVals
TickPairs == {<<0, 0>>, <<32768, 65535>>, <<65535, 32768>>}

\* what an uninitialised last_diff_time may read as [ms]
UninitDiffTimes == {0, 20}

\* what an uninitialised last_timestamp may read as
UninitTimes == {0, 10}

\* the (time_stamp, left_encoder, right_encoder) samples the hardware layer delivers
Samples == {<<ts, p[1], p[2]>> : ts \in TimeStamps, p \in TickPairs}

\* the samples delivered while two threads run
FewSamples == {<<10, 0, 0>>, <<65530, 65535, 32768>>}

\* ------------------------------------------------------------------------
\* State
\* ------------------------------------------------------------------------

VARIABLES
  constructed,          \* the DiffDrive objects constructed so far
  init_l, init_r,       \* static bool init_l, init_r of update(): one pair for the whole program
  last_tick_left, last_tick_right,
  last_rad_left, last_rad_right,
  last_velocity_left, last_velocity_right,
  last_timestamp, last_diff_time,
  point_velocity, speed, radius,
  state_mutex, velocity_mutex,
  pc,                   \* where each thread stands in the operation it runs
  this,                 \* the object a thread's running operation was invoked on
  loc,                  \* arguments, locals and by-reference outputs of the running operation
  calls,                \* operations the bound of the model still allows
  updated,              \* history: the objects update() has run on
  prev_sample,          \* history: the sample of the latest update() on each object
  reset_since,          \* history: reset() ran on the object since its latest update()
  ticks_since_reset,    \* history: <<left, right>> sums of the tick differences that
                        \* update() computed on the object since its latest reset()
  last_write            \* history: the latest completed write of (speed, radius)

odomVars == <<init_l, init_r, last_tick_left, last_tick_right, last_rad_left, last_rad_right,
              last_velocity_left, last_velocity_right, last_timestamp, last_diff_time>>

cmdVars == <<point_velocity, speed, radius>>

lockVars == <<state_mutex, velocity_mutex>>

odomHistVars == <<updated, prev_sample, reset_since, ticks_since_reset>>

histVars == <<odomHistVars, last_write>>

vars == <<constructed, odomVars, cmdVars, lockVars, pc, this, loc, calls, histVars>>

NoLoc == [op |-> "none"]

NoSample == <<>>

\* a by-reference output the operation has not written yet
NotWritten == <<>>

\* ------------------------------------------------------------------------
\* DiffDrive::DiffDrive()
\* ------------------------------------------------------------------------

\* The member initialiser list sets every member but last_timestamp and
\* last_diff_time, which therefore hold whatever the storage held.
Constructed(budget) ==
  /\ constructed = {"a"}
  /\ init_l = FALSE
  /\ init_r = FALSE
  /\ last_tick_left = [i \in Instances |-> 0]
  /\ last_tick_right = [i \in Instances |-> 0]
  /\ last_rad_left = [i \in Instances |-> 0]
  /\ last_rad_right = [i \in Instances |-> 0]
  /\ last_velocity_left = [i \in Instances |-> RatInt(0)]
  /\ last_velocity_right = [i \in Instances |-> RatInt(0)]
  /\ \E ts \in UninitTimes : last_timestamp = [i \in Instances |-> IF i = "a" THEN ts ELSE 0]
  /\ \E dt \in UninitDiffTimes : last_diff_time = [i \in Instances |-> IF i = "a" THEN dt ELSE 0]
  /\ point_velocity = [i \in Instances |-> <<RatInt(0), RatInt(0)>>]
  /\ speed = [i \in Instances |-> RatInt(0)]
  /\ radius = [i \in Instances |-> RatInt(0)]
  /\ state_mutex = [i \in Instances |-> NoThread]
  /\ velocity_mutex = [i \in Instances |-> NoThread]
  /\ pc = [t \in Threads |-> "idle"]
  /\ this = [t \in Threads |-> "a"]
  /\ loc = [t \in Threads |-> NoLoc]
  /\ calls = budget
  /\ updated = {}
  /\ prev_sample = [i \in Instances |-> NoSample]
  /\ reset_since = [i \in Instances |-> FALSE]
  /\ ticks_since_reset = [i \in Instances |-> <<0, 0>>]
  /\ last_write = [i \in Instances |->
                     [by |-> "DiffDrive", args |-> <<>>, pair |-> <<RatInt(0), RatInt(0)>>]]

Init == Constructed(MaxCalls)

InitOdom == Constructed(MaxOdomCalls)

InitCmd == Constructed(MaxCmdCalls)

\* a further object is constructed while the program runs
Construct(i) ==
  /\ i \notin constructed
  /\ constructed' = constructed \cup {i}
  /\ last_velocity_left' = [last_velocity_left EXCEPT ![i] = RatInt(0)]
  /\ last_velocity_right' = [last_velocity_right EXCEPT ![i] = RatInt(0)]
  /\ last_tick_left' = [last_tick_left EXCEPT ![i] = 0]
  /\ last_tick_right' = [last_tick_right EXCEPT ![i] = 0]
  /\ last_rad_left' = [last_rad_left EXCEPT ![i] = 0]
  /\ last_rad_right' = [last_rad_right EXCEPT ![i] = 0]
  /\ point_velocity' = [point_velocity EXCEPT ![i] = <<RatInt(0), RatInt(0)>>]
  /\ radius' = [radius EXCEPT ![i] = RatInt(0)]
  /\ speed' = [speed EXCEPT ![i] = RatInt(0)]
  /\ \E ts \in UninitTimes : last_timestamp' = [last_timestamp EXCEPT ![i] = ts]
  /\ \E dt \in UninitDiffTimes : last_diff_time' = [last_diff_time EXCEPT ![i] = dt]
  /\ UNCHANGED <<init_l, init_r, lockVars, pc, this, loc, calls, histVars>>

\* ------------------------------------------------------------------------
\* Calls and returns
\* ------------------------------------------------------------------------

\* thread t invokes an operation on object i with the arguments args
Invoke(t, i, entry, args) ==
  /\ pc[t] = "idle"
  /\ calls > 0
  /\ i \in constructed
  /\ pc' = [pc EXCEPT ![t] = entry]
  /\ this' = [this EXCEPT ![t] = i]
  /\ loc' = [loc EXCEPT ![t] = args]
  /\ calls' = calls - 1

Goto(t, label) == pc' = [pc EXCEPT ![t] = label]

\* the program points right after an operation's last statement
RetPcs == {"u_ret", "r_ret", "g_ret", "s_ret", "p_ret", "v_ret_s", "v_ret_p", "v_ret_g",
           "w_ret", "c_ret"}

\* control is back in the caller
Return(t) ==
  /\ pc[t] \in RetPcs
  /\ Goto(t, "idle")
  /\ loc' = [loc EXCEPT ![t] = NoLoc]
  /\ UNCHANGED <<constructed, odomVars, cmdVars, lockVars, this, calls, histVars>>

\* mutex.lock(): blocks while another thread holds the mutex
Lock(mutex, t, i) == mutex[i] = NoThread /\ mutex' = [mutex EXCEPT ![i] = t]

\* mutex.unlock()
Unlock(mutex, t, i) == mutex' = [mutex EXCEPT ![i] = NoThread]

\* ------------------------------------------------------------------------
\* DiffDrive::update
\* ------------------------------------------------------------------------

\* x & 0xffff on a two's-complement int
And0xffff(x) == x % TwoTo16

\* (short) of a value in 0 .. 65535
CastShort(v) == IF v > SHRT_MAX THEN v - TwoTo16 ELSE v

\* the operands of the subtraction swapped
DiffTicks_Reversed(curr, last) == CastShort(And0xffff(last - curr))

\* (double)(short)((curr - last) & 0xffff)
DiffTicks(curr, last) == CastShort(And0xffff(curr - last))

\* diff_drive_kinematics.poseUpdateFromWheelDifferential(dleft, dright): the
\* two-wheel differential of the kinematics library, (ds, 0, domega) with
\* ds = wheel_radius*(dleft+dright)/2 and domega = wheel_radius*(dright-dleft)/bias
poseUpdateFromWheelDifferential(dleft, dright) ==
  << RatDiv(RatMul(wheel_radius, RatInt(dleft + dright)), RatInt(2)),
     RatInt(0),
     RatDiv(RatMul(wheel_radius, RatInt(dright - dleft)), bias) >>

update_call(t, samples) ==
  /\ \E i \in constructed, s \in samples :
       Invoke(t, i, "u_lock",
              [op |-> "update", time_stamp |-> s[1], left_encoder |-> s[2],
               right_encoder |-> s[3], pose_update |-> NotWritten,
               pose_update_rates |-> NotWritten])
  /\ UNCHANGED <<constructed, odomVars, cmdVars, lockVars, histVars>>

\* line 56
update_lock(t) ==
  /\ pc[t] = "u_lock"
  /\ Lock(state_mutex, t, this[t])
  /\ Goto(t, "u_ticks")
  /\ UNCHANGED <<constructed, odomVars, cmdVars, velocity_mutex, this, loc, calls, histVars>>

\* the magnitude of each tick difference accumulated, as by an odometer
update_ticks_AccumulatesMagnitude(t) ==
  LET i == this[t]
      curr_tick_left == loc[t].left_encoder
      curr_tick_right == loc[t].right_encoder
      seeded_left == IF ~init_l THEN curr_tick_left ELSE last_tick_left[i]
      seeded_right == IF ~init_r THEN curr_tick_right ELSE last_tick_right[i]
      left_diff_ticks == DiffTicks(curr_tick_left, seeded_left)
      right_diff_ticks == DiffTicks(curr_tick_right, seeded_right)
  IN  /\ pc[t] = "u_ticks"
      /\ init_l' = TRUE
      /\ init_r' = TRUE
      /\ last_tick_left' = [last_tick_left EXCEPT ![i] = curr_tick_left]
      /\ last_tick_right' = [last_tick_right EXCEPT ![i] = curr_tick_right]
      /\ last_rad_left' = [last_rad_left EXCEPT ![i] =
                             @ + tick_to_rad * Abs(left_diff_ticks)]
      /\ last_rad_right' = [last_rad_right EXCEPT ![i] =
                              @ + tick_to_rad * Abs(right_diff_ticks)]
      /\ loc' = [loc EXCEPT ![t] =
                   [op |-> "update",
                    time_stamp |-> loc[t].time_stamp,
                    left_encoder |-> curr_tick_left,
                    right_encoder |-> curr_tick_right,
                    left_diff_ticks |-> left_diff_ticks,
                    right_diff_ticks |-> right_diff_ticks,
                    pose_update |-> poseUpdateFromWheelDifferential(
                                      tick_to_rad * left_diff_ticks,
                                      tick_to_rad * right_diff_ticks),
                    pose_update_rates |-> loc[t].pose_update_rates,
                    \* the divisor of the pose rates, set with them
                    rate_divisor |-> NotWritten,
                    \* history, for the properties
                    first |-> i \notin updated,
                    prev |-> prev_sample[i],
                    after_reset |-> reset_since[i],
                    old_rad_left |-> last_rad_left[i],
                    old_rad_right |-> last_rad_right[i],
                    old_timestamp |-> last_timestamp[i],
                    old_diff_time |-> last_diff_time[i],
                    old_velocity_left |-> last_velocity_left[i],
                    old_velocity_right |-> last_velocity_right[i]]]
      /\ updated' = updated \cup {i}
      /\ prev_sample' = [prev_sample EXCEPT ![i] =
                           <<loc[t].time_stamp, curr_tick_left, curr_tick_right>>]
      /\ reset_since' = [reset_since EXCEPT ![i] = FALSE]
      /\ ticks_since_reset' = [ticks_since_reset EXCEPT ![i] =
                                 <<@[1] + left_diff_ticks, @[2] + right_diff_ticks>>]
      /\ Goto(t, "u_time")
      /\ UNCHANGED <<constructed, last_velocity_left, last_velocity_right, last_timestamp,
                     last_diff_time, cmdVars, lockVars, this, calls, last_write>>

\* lines 57-89: seed the baselines, wrapped tick differences, accumulated
\* angles, pose update
update_ticks(t) ==
  LET i == this[t]
      curr_tick_left == loc[t].left_encoder
      curr_tick_right == loc[t].right_encoder
      seeded_left == IF ~init_l THEN curr_tick_left ELSE last_tick_left[i]
      seeded_right == IF ~init_r THEN curr_tick_right ELSE last_tick_right[i]
      left_diff_ticks == DiffTicks(curr_tick_left, seeded_left)
      right_diff_ticks == DiffTicks(curr_tick_right, seeded_right)
  IN  /\ pc[t] = "u_ticks"
      /\ init_l' = TRUE
      /\ init_r' = TRUE
      /\ last_tick_left' = [last_tick_left EXCEPT ![i] = curr_tick_left]
      /\ last_tick_right' = [last_tick_right EXCEPT ![i] = curr_tick_right]
      /\ last_rad_left' = [last_rad_left EXCEPT ![i] = @ + tick_to_rad * left_diff_ticks]
      /\ last_rad_right' = [last_rad_right EXCEPT ![i] = @ + tick_to_rad * right_diff_ticks]
      /\ loc' = [loc EXCEPT ![t] =
                   [op |-> "update",
                    time_stamp |-> loc[t].time_stamp,
                    left_encoder |-> curr_tick_left,
                    right_encoder |-> curr_tick_right,
                    left_diff_ticks |-> left_diff_ticks,
                    right_diff_ticks |-> right_diff_ticks,
                    pose_update |-> poseUpdateFromWheelDifferential(
                                      tick_to_rad * left_diff_ticks,
                                      tick_to_rad * right_diff_ticks),
                    pose_update_rates |-> loc[t].pose_update_rates,
                    \* the divisor of the pose rates, set with them
                    rate_divisor |-> NotWritten,
                    \* history, for the properties
                    first |-> i \notin updated,
                    prev |-> prev_sample[i],
                    after_reset |-> reset_since[i],
                    old_rad_left |-> last_rad_left[i],
                    old_rad_right |-> last_rad_right[i],
                    old_timestamp |-> last_timestamp[i],
                    old_diff_time |-> last_diff_time[i],
                    old_velocity_left |-> last_velocity_left[i],
                    old_velocity_right |-> last_velocity_right[i]]]
      /\ updated' = updated \cup {i}
      /\ prev_sample' = [prev_sample EXCEPT ![i] =
                           <<loc[t].time_stamp, curr_tick_left, curr_tick_right>>]
      /\ reset_since' = [reset_since EXCEPT ![i] = FALSE]
      /\ ticks_since_reset' = [ticks_since_reset EXCEPT ![i] =
                                 <<@[1] + left_diff_ticks, @[2] + right_diff_ticks>>]
      /\ Goto(t, "u_time")
      /\ UNCHANGED <<constructed, last_velocity_left, last_velocity_right, last_timestamp,
                     last_diff_time, cmdVars, lockVars, this, calls, last_write>>

\* pose_update[k] / last_diff_time, k = 0, 1, 2
PoseRates(pose_update, diff_time) ==
  << RatDiv(pose_update[1], RatInt(diff_time)),
     RatDiv(pose_update[2], RatInt(diff_time)),
     RatDiv(pose_update[3], RatInt(diff_time)) >>

\* update_time zeroing the wheel velocities when the timestamp did not move
update_time_ZeroesVelocities(t) ==
  LET i == this[t]
      curr_timestamp == loc[t].time_stamp
      changed == curr_timestamp # last_timestamp[i]
      diff_time == IF changed THEN DiffTicks(curr_timestamp, last_timestamp[i])
                   ELSE last_diff_time[i]
  IN  /\ pc[t] = "u_time"
      /\ IF changed
         THEN /\ last_diff_time' = [last_diff_time EXCEPT ![i] = diff_time]
              /\ last_timestamp' = [last_timestamp EXCEPT ![i] = curr_timestamp]
              /\ last_velocity_left' = [last_velocity_left EXCEPT ![i] =
                   RatDiv(RatInt(tick_to_rad * loc[t].left_diff_ticks), RatInt(diff_time))]
              /\ last_velocity_right' = [last_velocity_right EXCEPT ![i] =
                   RatDiv(RatInt(tick_to_rad * loc[t].right_diff_ticks), RatInt(diff_time))]
         ELSE /\ last_velocity_left' = [last_velocity_left EXCEPT ![i] = RatInt(0)]
              /\ last_velocity_right' = [last_velocity_right EXCEPT ![i] = RatInt(0)]
              /\ UNCHANGED <<last_diff_time, last_timestamp>>
      /\ loc' = [loc EXCEPT ![t].pose_update_rates = PoseRates(loc[t].pose_update, diff_time),
                             ![t].rate_divisor = diff_time]
      /\ Goto(t, "u_unlock")
      /\ UNCHANGED <<constructed, init_l, init_r, last_tick_left, last_tick_right,
                     last_rad_left, last_rad_right, cmdVars, lockVars, this, calls, histVars>>

\* lines 91-103: elapsed time and wheel velocities when the timestamp moved,
\* then the pose rates
update_time(t) ==
  LET i == this[t]
      curr_timestamp == loc[t].time_stamp
      changed == curr_timestamp # last_timestamp[i]
      diff_time == IF changed THEN DiffTicks(curr_timestamp, last_timestamp[i])
                   ELSE last_diff_time[i]
  IN  /\ pc[t] = "u_time"
      /\ IF changed
         THEN /\ last_diff_time' = [last_diff_time EXCEPT ![i] = diff_time]
              /\ last_timestamp' = [last_timestamp EXCEPT ![i] = curr_timestamp]
              /\ last_velocity_left' = [last_velocity_left EXCEPT ![i] =
                   RatDiv(RatInt(tick_to_rad * loc[t].left_diff_ticks), RatInt(diff_time))]
              /\ last_velocity_right' = [last_velocity_right EXCEPT ![i] =
                   RatDiv(RatInt(tick_to_rad * loc[t].right_diff_ticks), RatInt(diff_time))]
         ELSE UNCHANGED <<last_diff_time, last_timestamp, last_velocity_left,
                          last_velocity_right>>
      /\ loc' = [loc EXCEPT ![t].pose_update_rates = PoseRates(loc[t].pose_update, diff_time),
                             ![t].rate_divisor = diff_time]
      /\ Goto(t, "u_unlock")
      /\ UNCHANGED <<constructed, init_l, init_r, last_tick_left, last_tick_right,
                     last_rad_left, last_rad_right, cmdVars, lockVars, this, calls, histVars>>

\* update returning without state_mutex.unlock()
update_unlock_KeepsMutex(t) ==
  /\ pc[t] = "u_unlock"
  /\ Goto(t, "u_ret")
  /\ UNCHANGED <<constructed, odomVars, cmdVars, lockVars, this, loc, calls, histVars>>

\* line 104
update_unlock(t) ==
  /\ pc[t] = "u_unlock"
  /\ Unlock(state_mutex, t, this[t])
  /\ Goto(t, "u_ret")
  /\ UNCHANGED <<constructed, odomVars, cmdVars, velocity_mutex, this, loc, calls, histVars>>

\* ------------------------------------------------------------------------
\* DiffDrive::reset
\* ------------------------------------------------------------------------

reset_call(t) ==
  /\ \E i \in constructed : Invoke(t, i, "r_lock", [op |-> "reset"])
  /\ UNCHANGED <<constructed, odomVars, cmdVars, lockVars, histVars>>

\* line 108
reset_lock(t) ==
  /\ pc[t] = "r_lock"
  /\ Lock(state_mutex, t, this[t])
  /\ Goto(t, "r_body")
  /\ UNCHANGED <<constructed, odomVars, cmdVars, velocity_mutex, this, loc, calls, histVars>>

\* reset_body clearing the tick baselines as well
reset_body_ClearsBaselines(t) ==
  LET i == this[t]
  IN  /\ pc[t] = "r_body"
      /\ last_rad_left' = [last_rad_left EXCEPT ![i] = 0]
      /\ last_rad_right' = [last_rad_right EXCEPT ![i] = 0]
      /\ last_velocity_left' = [last_velocity_left EXCEPT ![i] = RatInt(0)]
      /\ last_velocity_right' = [last_velocity_right EXCEPT ![i] = RatInt(0)]
      /\ last_tick_left' = [last_tick_left EXCEPT ![i] = 0]
      /\ last_tick_right' = [last_tick_right EXCEPT ![i] = 0]
      /\ reset_since' = [reset_since EXCEPT ![i] = TRUE]
      /\ ticks_since_reset' = [ticks_since_reset EXCEPT ![i] = <<0, 0>>]
      /\ Goto(t, "r_unlock")
      /\ UNCHANGED <<constructed, init_l, init_r, last_timestamp, last_diff_time, cmdVars,
                     lockVars, this, loc, calls, updated, prev_sample, last_write>>

\* the right accumulated angle not zeroed
reset_body_KeepsRightAngle(t) ==
  LET i == this[t]
  IN  /\ pc[t] = "r_body"
      /\ last_rad_left' = [last_rad_left EXCEPT ![i] = 0]
      /\ last_velocity_left' = [last_velocity_left EXCEPT ![i] = RatInt(0)]
      /\ last_velocity_right' = [last_velocity_right EXCEPT ![i] = RatInt(0)]
      /\ reset_since' = [reset_since EXCEPT ![i] = TRUE]
      /\ ticks_since_reset' = [ticks_since_reset EXCEPT ![i] = <<0, 0>>]
      /\ Goto(t, "r_unlock")
      /\ UNCHANGED <<constructed, init_l, init_r, last_tick_left, last_tick_right, last_rad_right,
                     last_timestamp, last_diff_time, cmdVars, lockVars, this, loc, calls,
                     updated, prev_sample, last_write>>

\* lines 109-112
reset_body(t) ==
  LET i == this[t]
  IN  /\ pc[t] = "r_body"
      /\ last_rad_left' = [last_rad_left EXCEPT ![i] = 0]
      /\ last_rad_right' = [last_rad_right EXCEPT ![i] = 0]
      /\ last_velocity_left' = [last_velocity_left EXCEPT ![i] = RatInt(0)]
      /\ last_velocity_right' = [last_velocity_right EXCEPT ![i] = RatInt(0)]
      /\ reset_since' = [reset_since EXCEPT ![i] = TRUE]
      /\ ticks_since_reset' = [ticks_since_reset EXCEPT ![i] = <<0, 0>>]
      /\ Goto(t, "r_unlock")
      /\ UNCHANGED <<constructed, init_l, init_r, last_tick_left, last_tick_right,
                     last_timestamp, last_diff_time, cmdVars, lockVars, this, loc, calls,
                     updated, prev_sample, last_write>>

\* line 113
reset_unlock(t) ==
  /\ pc[t] = "r_unlock"
  /\ Unlock(state_mutex, t, this[t])
  /\ Goto(t, "r_ret")
  /\ UNCHANGED <<constructed, odomVars, cmdVars, velocity_mutex, this, loc, calls, histVars>>

\* ------------------------------------------------------------------------
\* DiffDrive::getWheelJointStates
\* ------------------------------------------------------------------------

getWheelJointStates_call(t) ==
  /\ \E i \in constructed : Invoke(t, i, "g_lock", [op |-> "getWheelJointStates"])
  /\ UNCHANGED <<constructed, odomVars, cmdVars, lockVars, histVars>>

\* the reads entered without taking state_mutex
getWheelJointStates_lock_NotTaken(t) ==
  /\ pc[t] = "g_lock"
  /\ Goto(t, "g_angles")
  /\ UNCHANGED <<constructed, odomVars, cmdVars, lockVars, this, loc, calls, histVars>>

\* line 118
getWheelJointStates_lock(t) ==
  /\ pc[t] = "g_lock"
  /\ Lock(state_mutex, t, this[t])
  /\ Goto(t, "g_angles")
  /\ UNCHANGED <<constructed, odomVars, cmdVars, velocity_mutex, this, loc, calls, histVars>>

\* lines 119-120
getWheelJointStates_angles(t) ==
  /\ pc[t] = "g_angles"
  /\ loc' = [loc EXCEPT ![t] =
               [op |-> "getWheelJointStates",
                wheel_left_angle |-> last_rad_left[this[t]],
                wheel_right_angle |-> last_rad_right[this[t]]]]
  /\ Goto(t, "g_rates")
  /\ UNCHANGED <<constructed, odomVars, cmdVars, lockVars, this, calls, histVars>>

\* lines 121-122
getWheelJointStates_rates(t) ==
  /\ pc[t] = "g_rates"
  /\ loc' = [loc EXCEPT ![t] =
               [op |-> "getWheelJointStates",
                wheel_left_angle |-> loc[t].wheel_left_angle,
                wheel_right_angle |-> loc[t].wheel_right_angle,
                wheel_left_angle_rate |-> last_velocity_left[this[t]],
                wheel_right_angle_rate |-> last_velocity_right[this[t]]]]
  /\ Goto(t, "g_unlock")
  /\ UNCHANGED <<constructed, odomVars, cmdVars, lockVars, this, calls, histVars>>

\* line 123
getWheelJointStates_unlock(t) ==
  /\ pc[t] = "g_unlock"
  /\ Unlock(state_mutex, t, this[t])
  /\ Goto(t, "g_ret")
  /\ UNCHANGED <<constructed, odomVars, cmdVars, velocity_mutex, this, loc, calls, histVars>>

\* ------------------------------------------------------------------------
\* DiffDrive::setVelocityCommands and DiffDrive::pointVelocity
\* ------------------------------------------------------------------------

\* commanded velocities <<vx [m/s], wz [rad/s]>> stored for telemetry
PointCmds == {<<Rat(1, 2), RatInt(1)>>, <<RatInt(-1), Rat(3, 10)>>}

setVelocityCommands_call(t) ==
  /\ \E i \in constructed, c \in PointCmds :
       Invoke(t, i, "s_copy0", [op |-> "setVelocityCommands", cmd_vel |-> c])
  /\ UNCHANGED <<constructed, odomVars, cmdVars, lockVars, histVars>>

\* line 133, first element of the vector assignment; no mutex is taken
setVelocityCommands_copy0(t) ==
  /\ pc[t] = "s_copy0"
  /\ point_velocity' = [point_velocity EXCEPT ![this[t]][1] = loc[t].cmd_vel[1]]
  /\ Goto(t, "s_copy1")
  /\ UNCHANGED <<constructed, odomVars, speed, radius, lockVars, this, loc, calls, histVars>>

\* line 133, second element
setVelocityCommands_copy1(t) ==
  /\ pc[t] = "s_copy1"
  /\ point_velocity' = [point_velocity EXCEPT ![this[t]][2] = loc[t].cmd_vel[2]]
  /\ Goto(t, "s_ret")
  /\ UNCHANGED <<constructed, odomVars, speed, radius, lockVars, this, loc, calls, histVars>>

pointVelocity_call(t) ==
  /\ \E i \in constructed : Invoke(t, i, "p_copy0", [op |-> "pointVelocity"])
  /\ UNCHANGED <<constructed, odomVars, cmdVars, lockVars, histVars>>

\* line 216, first element of the returned copy; no mutex is taken
pointVelocity_copy0(t) ==
  /\ pc[t] = "p_copy0"
  /\ loc' = [loc EXCEPT ![t] = [op |-> "pointVelocity", vx |-> point_velocity[this[t]][1]]]
  /\ Goto(t, "p_copy1")
  /\ UNCHANGED <<constructed, odomVars, cmdVars, lockVars, this, calls, histVars>>

\* line 216, second element
pointVelocity_copy1(t) ==
  /\ pc[t] = "p_copy1"
  /\ loc' = [loc EXCEPT ![t] = [op |-> "pointVelocity", vx |-> loc[t].vx,
                                wz |-> point_velocity[this[t]][2]]]
  /\ Goto(t, "p_ret")
  /\ UNCHANGED <<constructed, odomVars, cmdVars, lockVars, this, calls, histVars>>

\* ------------------------------------------------------------------------
\* DiffDrive::velocityCommands(const double &vx, const double &wz)
\* ------------------------------------------------------------------------

\* linear velocities [m/s]
VXs == {RatInt(0), Rat(1, 20), Rat(1, 10), Rat(1, 2), RatInt(1), Rat(-1, 2), RatInt(40)}

\* angular velocities [rad/s]
WZs == {RatInt(0), Rat(1, 20000), Rat(1, 10000), Rat(1, 20), Rat(3, 10), Rat(1, 2),
        RatInt(1), Rat(-1, 20), Rat(-1, 2), RatInt(100), RatInt(-200)}

VelCmds == VXs \X WZs

\* the commands sent while two threads run: straight, pivot, general turn
FewVelCmds == {<<RatInt(1), Rat(1, 20000)>>, <<RatInt(0), Rat(1, 20)>>,
               <<Rat(1, 2), Rat(3, 10)>>}

\* the dead-zone rule left out
DeadZone_Skipped(vx) == vx

\* lines 149-151
DeadZone(vx) == IF RatLess(RatAbs(vx), Rat(1, 10)) THEN RatInt(0) ELSE vx

\* the straight-line test with <= in place of <
IsStraight_Inclusive(wz) == RatLeq(RatAbs(wz), epsilon)

\* line 154
IsStraight(wz) == RatLess(RatAbs(wz), epsilon)

\* line 156
StraightSpeed(vx_) == RatMul(RatInt(1000), vx_)

\* line 163
TurnRadius(vx_, wz) == RatDiv(RatMul(vx_, RatInt(1000)), wz)

\* the pivot test with < in place of <= on the radius
IsPivot_RadiusStrict(vx_, r) == RatLess(RatAbs(vx_), epsilon) \/ RatLess(RatAbs(r), RatInt(1))

\* line 166
IsPivot(vx_, r) == RatLess(RatAbs(vx_), epsilon) \/ RatLeq(RatAbs(r), RatInt(1))

\* the clamp losing the sign of the speed
PivotSpeed_ClampLosesSign(wz) ==
  LET s == RatDiv(RatMul(RatMul(RatInt(1000), bias), wz), RatInt(2))
  IN  IF RatLess(RatAbs(s), RatInt(50)) THEN RatInt(50) ELSE s

\* lines 167-178
PivotSpeed(wz) ==
  LET s == RatDiv(RatMul(RatMul(RatInt(1000), bias), wz), RatInt(2))
  IN  IF RatLess(RatAbs(s), RatInt(50))
      THEN IF RatLess(RatInt(0), s) THEN RatInt(50) ELSE RatInt(-50)
      ELSE s

\* half the wheelbase added whatever the sign of the radius
GeneralSpeed_AlwaysAdds(r, wz) ==
  LET half == RatDiv(RatMul(RatInt(1000), bias), RatInt(2))
  IN  RatMul(RatAdd(r, half), wz)

\* lines 186-190
GeneralSpeed(r, wz) ==
  LET half == RatDiv(RatMul(RatInt(1000), bias), RatInt(2))
  IN  IF RatLess(RatInt(0), r) THEN RatMul(RatAdd(r, half), wz)
      ELSE RatMul(RatSub(r, half), wz)

velocityCommands_call(t, cmds) ==
  /\ \E i \in constructed, c \in cmds :
       Invoke(t, i, "v_lock", [op |-> "velocityCommands", vx |-> c[1], wz |-> c[2],
                               vx_ |-> c[1], log_speed |-> NotWritten,
                               log_radius |-> NotWritten,
                               \* history: the pair this call stored
                               stored |-> NotWritten])
  /\ UNCHANGED <<constructed, odomVars, cmdVars, lockVars, histVars>>

\* line 144
velocityCommands_lock(t) ==
  /\ pc[t] = "v_lock"
  /\ Lock(velocity_mutex, t, this[t])
  /\ Goto(t, "v_straight")
  /\ UNCHANGED <<constructed, odomVars, cmdVars, state_mutex, this, loc, calls, histVars>>

\* lines 145-163: dead zone, the straight-line case, else the turning radius
velocityCommands_straight(t) ==
  LET i == this[t]
      wz == loc[t].wz
      vx_ == DeadZone(loc[t].vx)
  IN  /\ pc[t] = "v_straight"
      /\ IF IsStraight(wz)
         THEN /\ radius' = [radius EXCEPT ![i] = RatInt(0)]
              /\ speed' = [speed EXCEPT ![i] = StraightSpeed(vx_)]
              /\ loc' = [loc EXCEPT ![t].vx_ = vx_,
                                     ![t].stored = <<speed'[i], radius'[i]>>]
              /\ last_write' = [last_write EXCEPT ![i] =
                                  [by |-> "velocityCommands", args |-> <<loc[t].vx, wz>>,
                                   pair |-> <<speed'[i], radius'[i]>>]]
              /\ Goto(t, "v_unlock_s")
         ELSE /\ radius' = [radius EXCEPT ![i] = TurnRadius(vx_, wz)]
              /\ loc' = [loc EXCEPT ![t].vx_ = vx_]
              /\ UNCHANGED <<speed, last_write>>
              /\ Goto(t, "v_pivot")
      /\ UNCHANGED <<constructed, odomVars, point_velocity, lockVars, this, calls,
                     odomHistVars>>

\* line 157
velocityCommands_unlock_s(t) ==
  /\ pc[t] = "v_unlock_s"
  /\ Unlock(velocity_mutex, t, this[t])
  /\ Goto(t, "v_log_s")
  /\ UNCHANGED <<constructed, odomVars, cmdVars, state_mutex, this, loc, calls, histVars>>

\* std::cout << "speed: " << speed << ", radius: " << radius
Log(t) ==
  loc' = [loc EXCEPT ![t].log_speed = speed[this[t]], ![t].log_radius = radius[this[t]]]

\* lines 158-159, after the mutex was released
velocityCommands_log_s(t) ==
  /\ pc[t] = "v_log_s"
  /\ Log(t)
  /\ Goto(t, "v_ret_s")
  /\ UNCHANGED <<constructed, odomVars, cmdVars, lockVars, this, calls, histVars>>

\* lines 166-190: the pivot case, else the general turn
velocityCommands_pivot(t) ==
  LET i == this[t]
      wz == loc[t].wz
  IN  /\ pc[t] = "v_pivot"
      /\ IF IsPivot(loc[t].vx_, radius[i])
         THEN /\ speed' = [speed EXCEPT ![i] = PivotSpeed(wz)]
              /\ radius' = [radius EXCEPT ![i] = RatInt(1)]
              /\ Goto(t, "v_unlock_p")
         ELSE /\ speed' = [speed EXCEPT ![i] = GeneralSpeed(radius[i], wz)]
              /\ UNCHANGED radius
              /\ Goto(t, "v_log_g")
      /\ loc' = [loc EXCEPT ![t].stored = <<speed'[i], radius'[i]>>]
      /\ last_write' = [last_write EXCEPT ![i] =
                          [by |-> "velocityCommands", args |-> <<loc[t].vx, wz>>,
                           pair |-> <<speed'[i], radius'[i]>>]]
      /\ UNCHANGED <<constructed, odomVars, point_velocity, lockVars, this, calls,
                     odomHistVars>>

\* the pivot return without velocity_mutex.unlock()
velocityCommands_unlock_p_KeepsMutex(t) ==
  /\ pc[t] = "v_unlock_p"
  /\ Goto(t, "v_log_p")
  /\ UNCHANGED <<constructed, odomVars, cmdVars, lockVars, this, loc, calls, histVars>>

\* line 180
velocityCommands_unlock_p(t) ==
  /\ pc[t] = "v_unlock_p"
  /\ Unlock(velocity_mutex, t, this[t])
  /\ Goto(t, "v_log_p")
  /\ UNCHANGED <<constructed, odomVars, cmdVars, state_mutex, this, loc, calls, histVars>>

\* lines 181-182, after the mutex was released
velocityCommands_log_p(t) ==
  /\ pc[t] = "v_log_p"
  /\ Log(t)
  /\ Goto(t, "v_ret_p")
  /\ UNCHANGED <<constructed, odomVars, cmdVars, lockVars, this, calls, histVars>>

\* line 192, the mutex still held
velocityCommands_log_g(t) ==
  /\ pc[t] = "v_log_g"
  /\ Log(t)
  /\ Goto(t, "v_unlock_g")
  /\ UNCHANGED <<constructed, odomVars, cmdVars, lockVars, this, calls, histVars>>

\* lines 194-195
velocityCommands_unlock_g(t) ==
  /\ pc[t] = "v_unlock_g"
  /\ Unlock(velocity_mutex, t, this[t])
  /\ Goto(t, "v_ret_g")
  /\ UNCHANGED <<constructed, odomVars, cmdVars, state_mutex, this, loc, calls, histVars>>

\* ------------------------------------------------------------------------
\* DiffDrive::velocityCommands(const short &cmd_speed, const short &cmd_radius)
\* ------------------------------------------------------------------------

\* raw <<cmd_speed, cmd_radius>> pairs
RawCmds == {<<0, 0>>, <<20, 1>>, <<-300, 32767>>, <<32767, -32768>>}

FewRawCmds == {<<20, 1>>, <<-300, 32767>>}

velocityCommandsRaw_call(t, cmds) ==
  /\ \E i \in constructed, c \in cmds :
       Invoke(t, i, "w_lock", [op |-> "velocityCommandsRaw", cmd_speed |-> c[1],
                               cmd_radius |-> c[2]])
  /\ UNCHANGED <<constructed, odomVars, cmdVars, lockVars, histVars>>

\* line 199
velocityCommandsRaw_lock(t) ==
  /\ pc[t] = "w_lock"
  /\ Lock(velocity_mutex, t, this[t])
  /\ Goto(t, "w_body")
  /\ UNCHANGED <<constructed, odomVars, cmdVars, state_mutex, this, loc, calls, histVars>>

\* the raw command put through the pivot clamp: a speed below 50 raised to 50
velocityCommandsRaw_body_ClampsSpeed(t) ==
  /\ pc[t] = "w_body"
  /\ speed' = [speed EXCEPT ![this[t]] =
                 IF Abs(loc[t].cmd_speed) < 50
                 THEN RatInt(IF loc[t].cmd_speed > 0 THEN 50 ELSE -50)
                 ELSE RatInt(loc[t].cmd_speed)]
  /\ radius' = [radius EXCEPT ![this[t]] = RatInt(loc[t].cmd_radius)]
  /\ last_write' = [last_write EXCEPT ![this[t]] =
                      [by |-> "velocityCommandsRaw",
                       args |-> <<loc[t].cmd_speed, loc[t].cmd_radius>>,
                       pair |-> <<speed'[this[t]], radius'[this[t]]>>]]
  /\ Goto(t, "w_unlock")
  /\ UNCHANGED <<constructed, odomVars, point_velocity, lockVars, this, loc, calls,
                 odomHistVars>>

\* lines 200-201
velocityCommandsRaw_body(t) ==
  /\ pc[t] = "w_body"
  /\ speed' = [speed EXCEPT ![this[t]] = RatInt(loc[t].cmd_speed)]
  /\ radius' = [radius EXCEPT ![this[t]] = RatInt(loc[t].cmd_radius)]
  /\ last_write' = [last_write EXCEPT ![this[t]] =
                      [by |-> "velocityCommandsRaw",
                       args |-> <<loc[t].cmd_speed, loc[t].cmd_radius>>,
                       pair |-> <<speed'[this[t]], radius'[this[t]]>>]]
  /\ Goto(t, "w_unlock")
  /\ UNCHANGED <<constructed, odomVars, point_velocity, lockVars, this, loc, calls,
                 odomHistVars>>

\* line 202
velocityCommandsRaw_unlock(t) ==
  /\ pc[t] = "w_unlock"
  /\ Unlock(velocity_mutex, t, this[t])
  /\ Goto(t, "w_ret")
  /\ UNCHANGED <<constructed, odomVars, cmdVars, state_mutex, this, loc, calls, histVars>>

\* ------------------------------------------------------------------------
\* DiffDrive::velocityCommands() and DiffDrive::bound
\* ------------------------------------------------------------------------

\* static_cast<short>(value) of a value within the range of short: truncation
Truncate(value) == Sgn(value.n) * (Abs(value.n) \div value.d)

\* the lower clamp left out
bound_ClampsUpperOnly(value) ==
  IF RatLess(RatInt(SHRT_MAX), value) THEN SHRT_MAX
  ELSE Truncate(value)

\* lines 219-223
bound(value) ==
  IF RatLess(RatInt(SHRT_MAX), value) THEN SHRT_MAX
  ELSE IF RatLess(value, RatInt(SHRT_MIN)) THEN SHRT_MIN
  ELSE Truncate(value)

velocityCommandsGet_call(t) ==
  /\ \E i \in constructed : Invoke(t, i, "c_lock", [op |-> "velocityCommandsGet"])
  /\ UNCHANGED <<constructed, odomVars, cmdVars, lockVars, histVars>>

\* the read entered without taking velocity_mutex
velocityCommandsGet_lock_NotTaken(t) ==
  /\ pc[t] = "c_lock"
  /\ Goto(t, "c_body")
  /\ UNCHANGED <<constructed, odomVars, cmdVars, lockVars, this, loc, calls, histVars>>

\* line 207
velocityCommandsGet_lock(t) ==
  /\ pc[t] = "c_lock"
  /\ Lock(velocity_mutex, t, this[t])
  /\ Goto(t, "c_body")
  /\ UNCHANGED <<constructed, odomVars, cmdVars, state_mutex, this, loc, calls, histVars>>

\* lines 208-210
velocityCommandsGet_body(t) ==
  /\ pc[t] = "c_body"
  /\ loc' = [loc EXCEPT ![t] = [op |-> "velocityCommandsGet",
                                cmd |-> <<bound(speed[this[t]]), bound(radius[this[t]])>>]]
  /\ Goto(t, "c_unlock")
  /\ UNCHANGED <<constructed, odomVars, cmdVars, lockVars, this, calls, histVars>>

\* lines 211-212
velocityCommandsGet_unlock(t) ==
  /\ pc[t] = "c_unlock"
  /\ Unlock(velocity_mutex, t, this[t])
  /\ Goto(t, "c_ret")
  /\ UNCHANGED <<constructed, odomVars, cmdVars, state_mutex, this, loc, calls, histVars>>

\* ------------------------------------------------------------------------
\* Specifications
\* ------------------------------------------------------------------------

\* a step of thread t inside the operation it runs
Step(t) ==
  \/ update_lock(t) \/ update_ticks(t) \/ update_time(t) \/ update_unlock(t)
  \/ reset_lock(t) \/ reset_body(t) \/ reset_unlock(t)
  \/ getWheelJointStates_lock(t) \/ getWheelJointStates_angles(t)
  \/ getWheelJointStates_rates(t) \/ getWheelJointStates_unlock(t)
  \/ setVelocityCommands_copy0(t) \/ setVelocityCommands_copy1(t)
  \/ pointVelocity_copy0(t) \/ pointVelocity_copy1(t)
  \/ velocityCommands_lock(t) \/ velocityCommands_straight(t)
  \/ velocityCommands_unlock_s(t) \/ velocityCommands_log_s(t)
  \/ velocityCommands_pivot(t)
  \/ velocityCommands_unlock_p(t) \/ velocityCommands_log_p(t)
  \/ velocityCommands_log_g(t) \/ velocityCommands_unlock_g(t)
  \/ velocityCommandsRaw_lock(t) \/ velocityCommandsRaw_body(t)
  \/ velocityCommandsRaw_unlock(t)
  \/ velocityCommandsGet_lock(t) \/ velocityCommandsGet_body(t)
  \/ velocityCommandsGet_unlock(t)
  \/ Return(t)

\* Two threads, the odometry producer and the command thread, call every
\* public operation of one object in any interleaving.
Next ==
  \E t \in Threads :
    \/ update_call(t, FewSamples)
    \/ reset_call(t)
    \/ getWheelJointStates_call(t)
    \/ setVelocityCommands_call(t)
    \/ pointVelocity_call(t)
    \/ velocityCommands_call(t, FewVelCmds)
    \/ velocityCommandsRaw_call(t, FewRawCmds)
    \/ velocityCommandsGet_call(t)
    \/ Step(t)

Spec == Init /\ [][Next]_vars

\* One thread runs the odometry operations on up to two objects, over every
\* sample of Samples.
NextOdom ==
  \/ \E i \in Instances : Construct(i)
  \/ update_call("odom", Samples)
  \/ reset_call("odom")
  \/ update_lock("odom") \/ update_ticks("odom") \/ update_time("odom")
  \/ update_unlock("odom")
  \/ reset_lock("odom") \/ reset_body("odom") \/ reset_unlock("odom")
  \/ Return("odom")

SpecOdom == InitOdom /\ [][NextOdom]_vars

\* One thread runs the command operations over every command of VelCmds and
\* RawCmds.
NextCmd ==
  \/ velocityCommands_call("cmd", VelCmds)
  \/ velocityCommandsRaw_call("cmd", RawCmds)
  \/ velocityCommandsGet_call("cmd")
  \/ velocityCommands_lock("cmd") \/ velocityCommands_straight("cmd")
  \/ velocityCommands_unlock_s("cmd") \/ velocityCommands_log_s("cmd")
  \/ velocityCommands_pivot("cmd")
  \/ velocityCommands_unlock_p("cmd") \/ velocityCommands_log_p("cmd")
  \/ velocityCommands_log_g("cmd") \/ velocityCommands_unlock_g("cmd")
  \/ velocityCommandsRaw_lock("cmd") \/ velocityCommandsRaw_body("cmd")
  \/ velocityCommandsRaw_unlock("cmd")
  \/ velocityCommandsGet_lock("cmd") \/ velocityCommandsGet_body("cmd")
  \/ velocityCommandsGet_unlock("cmd")
  \/ Return("cmd")

SpecCmd == InitCmd /\ [][NextCmd]_vars

\* ------------------------------------------------------------------------
\* Properties of the odometry (checked under SpecOdom)
\* ------------------------------------------------------------------------

\* update() has computed its tick differences and still holds state_mutex
InUpdate(t) == pc[t] \in {"u_time", "u_unlock"}

\* update() has also run its timestamp part
UpdateDone(t) == pc[t] = "u_unlock"

ZeroPose == <<RatInt(0), RatInt(0), RatInt(0)>>

\* the signed wraparound difference as the specification states it
WrappedDelta(curr, prev) == ((curr - prev + 32768) % 65536) - 32768

\* C1: on every freshly constructed object, also one constructed after another
\* object was updated, the first update seeds both baselines with the supplied
\* ticks and yields zero tick deltas and a zero pose delta.
C1_FirstUpdateSeedsBaseline ==
  \A t \in Threads :
    (InUpdate(t) /\ loc[t].first) =>
      /\ loc[t].left_diff_ticks = 0
      /\ loc[t].right_diff_ticks = 0
      /\ loc[t].pose_update = ZeroPose
      /\ last_tick_left[this[t]] = loc[t].left_encoder
      /\ last_tick_right[this[t]] = loc[t].right_encoder

\* C2: on every update of an object after its first, the left and the right
\* tick delta and, when the timestamp changed, the elapsed time equal
\* ((curr - prev + 32768) mod 65536) - 32768 with prev the value of the
\* preceding update, and the stored baseline becomes curr.
C2_WrappedDelta ==
  \A t \in Threads :
    /\ (InUpdate(t) /\ ~loc[t].first) =>
         /\ loc[t].left_diff_ticks = WrappedDelta(loc[t].left_encoder, loc[t].prev[2])
         /\ loc[t].right_diff_ticks = WrappedDelta(loc[t].right_encoder, loc[t].prev[3])
         /\ last_tick_left[this[t]] = loc[t].left_encoder
         /\ last_tick_right[this[t]] = loc[t].right_encoder
    /\ (UpdateDone(t) /\ ~loc[t].first /\ loc[t].time_stamp # loc[t].prev[1]) =>
         /\ last_diff_time[this[t]] = WrappedDelta(loc[t].time_stamp, loc[t].prev[1])
         /\ last_timestamp[this[t]] = loc[t].time_stamp

\* an update after the first whose left ticks wrapped upwards (65535 -> 0) and
\* whose timestamp wrapped upwards (65530 -> 10)
C2_Witness ==
  \E t \in Threads :
    /\ UpdateDone(t) /\ ~loc[t].first
    /\ loc[t].prev[2] = 65535 /\ loc[t].left_encoder = 0 /\ loc[t].left_diff_ticks = 1
    /\ loc[t].prev[3] = 32768 /\ loc[t].right_encoder = 0
    /\ loc[t].right_diff_ticks = -32768
    /\ loc[t].prev[1] = 65530 /\ loc[t].time_stamp = 10 /\ last_diff_time[this[t]] = 16

\* the step of reset() that runs its four assignments
ResetStep(t) == pc[t] = "r_body" /\ pc'[t] = "r_unlock"

\* C3: reset zeroes both accumulated angles and both wheel velocities and
\* leaves the tick baselines, the seeded flags, the stored timestamp, the
\* stored elapsed time and the command state unchanged; so the update after a
\* reset takes its tick and time deltas from the last sample before the reset.
C3_ResetKeepsBaselines ==
  /\ [][\A t \in Threads :
          ResetStep(t) =>
            /\ last_rad_left'[this[t]] = 0
            /\ last_rad_right'[this[t]] = 0
            /\ last_velocity_left'[this[t]] = RatInt(0)
            /\ last_velocity_right'[this[t]] = RatInt(0)
            /\ UNCHANGED <<last_tick_left, last_tick_right, init_l, init_r,
                           last_timestamp, last_diff_time, cmdVars>>]_vars
  /\ [](\A t \in Threads :
          /\ (InUpdate(t) /\ loc[t].after_reset /\ ~loc[t].first) =>
               /\ loc[t].left_diff_ticks
                    = WrappedDelta(loc[t].left_encoder, loc[t].prev[2])
               /\ loc[t].right_diff_ticks
                    = WrappedDelta(loc[t].right_encoder, loc[t].prev[3])
          /\ (UpdateDone(t) /\ loc[t].after_reset /\ ~loc[t].first
                /\ loc[t].time_stamp # loc[t].prev[1]) =>
               last_diff_time[this[t]] = WrappedDelta(loc[t].time_stamp, loc[t].prev[1]))

\* an update that follows a reset: its left delta is taken from the sample
\* before the reset (it is not the delta from zero), and the angle restarts
\* from zero
C3_Witness ==
  \E t \in Threads :
    /\ UpdateDone(t) /\ loc[t].after_reset /\ ~loc[t].first
    /\ loc[t].prev[2] = 32768 /\ loc[t].left_encoder = 65535
    /\ loc[t].left_diff_ticks = 32767
    /\ loc[t].left_diff_ticks # WrappedDelta(loc[t].left_encoder, 0)
    /\ last_rad_left[this[t]] = tick_to_rad * 32767
    /\ loc[t].time_stamp # loc[t].prev[1]

\* C4: no update divides the pose delta by an elapsed time of zero.
C4_ZeroElapsedTimeGuarded ==
  \A t \in Threads :
    UpdateDone(t) =>
      /\ loc[t].rate_divisor # 0
      /\ \A k \in 1..3 : IsFinite(loc[t].pose_update_rates[k])

\* the update was called with the timestamp the object already stored
Coincident(t) == UpdateDone(t) /\ loc[t].time_stamp = loc[t].old_timestamp

\* what a coincident timestamp leaves alone and what it still advances
CoincidentFrame(t) ==
  LET i == this[t]
  IN  /\ last_diff_time[i] = loc[t].old_diff_time
      /\ last_timestamp[i] = loc[t].old_timestamp
      /\ last_velocity_left[i] = loc[t].old_velocity_left
      /\ last_velocity_right[i] = loc[t].old_velocity_right
      /\ last_tick_left[i] = loc[t].left_encoder
      /\ last_tick_right[i] = loc[t].right_encoder
      /\ last_rad_left[i] = loc[t].old_rad_left + tick_to_rad * loc[t].left_diff_ticks
      /\ last_rad_right[i] = loc[t].old_rad_right + tick_to_rad * loc[t].right_diff_ticks
      /\ loc[t].pose_update
           = poseUpdateFromWheelDifferential(tick_to_rad * loc[t].left_diff_ticks,
                                             tick_to_rad * loc[t].right_diff_ticks)

AccessesOdometry(t) == pc[t] \in {"u_ticks", "u_time", "r_body", "g_angles", "g_rates"}

\* the next statement of thread t reads or writes the command state
AccessesCommand(t) ==
  pc[t] \in {"s_copy0", "s_copy1", "p_copy0", "p_copy1", "v_straight", "v_pivot",
             "v_log_s", "v_log_p", "v_log_g", "w_body", "c_body"}

HoldsStateMutex(t) == \E i \in Instances : state_mutex[i] = t

HoldsVelocityMutex(t) == \E i \in Instances : velocity_mutex[i] = t

\* C6: odometry state is only accessed under the odometry lock and command
\* state (commanded velocity and firmware command) only under the command
\* lock, so no two threads access the same state group at the same time.
C6_StateOnlyAccessedUnderItsLock ==
  /\ \A t \in Threads :
       /\ AccessesOdometry(t) => state_mutex[this[t]] = t
       /\ AccessesCommand(t) => velocity_mutex[this[t]] = t
  /\ \A t, u \in Threads :
       (t # u /\ this[t] = this[u]) =>
         /\ ~(AccessesOdometry(t) /\ AccessesOdometry(u))
         /\ ~(AccessesCommand(t) /\ AccessesCommand(u))

\* C7: once an operation has returned, through whichever return, the calling
\* thread holds neither the odometry lock nor the command lock.
C7_LocksReleasedOnReturn ==
  \A t \in Threads :
    pc[t] \in RetPcs \cup {"idle"} => (~HoldsStateMutex(t) /\ ~HoldsVelocityMutex(t))

\* a thread has left the translator through its pivot return and the other
\* thread has taken the command lock after it
C7_Witness ==
  \E t, u \in Threads :
    /\ t # u
    /\ pc[t] = "v_ret_p"
    /\ velocity_mutex[this[t]] = u
    /\ pc[u] \in {"v_straight", "v_pivot", "v_unlock_s", "v_unlock_p", "v_log_g", "v_unlock_g"}

\* the mutex thread t is about to lock, and its holder
AwaitedHolder(t) ==
  IF pc[t] \in {"u_lock", "r_lock", "g_lock"} THEN state_mutex[this[t]]
  ELSE IF pc[t] \in {"v_lock", "w_lock", "c_lock"} THEN velocity_mutex[this[t]]
  ELSE NoThread

\* thread t cannot take its next step: the mutex it is about to lock is held
Blocked(t) == AwaitedHolder(t) # NoThread

\* thread t is inside an operation and its next step can be taken
Running(t) == pc[t] \notin RetPcs \cup {"idle"} /\ ~Blocked(t)

\* C8: no thread ever holds the odometry lock and the command lock together,
\* and no deadlock is reachable: a thread that waits for a lock waits for a
\* thread that is running its operation, so every invoked operation completes.
C8_NoNestingNoDeadlock ==
  \A t \in Threads :
    /\ ~(HoldsStateMutex(t) /\ HoldsVelocityMutex(t))
    /\ Blocked(t) => (AwaitedHolder(t) # t /\ Running(AwaitedHolder(t)))

\* a thread waits for the odometry lock the other thread holds
C8_Witness ==
  \E t, u \in Threads :
    /\ t # u
    /\ pc[t] \in {"u_lock", "r_lock", "g_lock"}
    /\ state_mutex[this[t]] = u
    /\ pc[u] \in {"u_ticks", "u_time", "u_unlock"}

\* ------------------------------------------------------------------------
\* Properties of the command translation (checked under SpecCmd)
\* ------------------------------------------------------------------------

\* |wz| < 1e-4
SmallWz(wz) == Abs(wz.n) * 10000 < wz.d

\* vx after the dead-zone rule: 0 when |vx| < 0.1, vx otherwise
DeadZoned(vx) == IF Abs(vx.n) * 10 < vx.d THEN RatInt(0) ELSE vx

\* the rational s equals k * v
EqualsScaled(s, k, v) == s.n * v.d = k * v.n * s.d

\* the program points of the translator behind its straight-line return
PastStraight == {"v_pivot", "v_unlock_p", "v_log_p", "v_ret_p", "v_log_g", "v_unlock_g",
                 "v_ret_g"}

\* C9: translate_velocity(vx, wz) with |wz| < 1e-4 stores radius = 0 and
\* speed = 1000 * vx', vx' being vx after the dead-zone rule, and evaluates no
\* later branch.
C9_StraightLine ==
  \A t \in Threads :
    /\ pc[t] = "v_unlock_s" =>
         /\ SmallWz(loc[t].wz)
         /\ radius[this[t]] = RatInt(0)
         /\ EqualsScaled(speed[this[t]], 1000, DeadZoned(loc[t].vx))
    /\ pc[t] \in PastStraight => ~SmallWz(loc[t].wz)

\* the straight-line example: vx = 1.0, wz = 0.00005 gives radius 0, speed 1000
C9_Witness ==
  \E t \in Threads :
    /\ pc[t] = "v_unlock_s"
    /\ loc[t].vx = RatInt(1) /\ loc[t].wz = Rat(1, 20000)
    /\ speed[this[t]] = RatInt(1000) /\ radius[this[t]] = RatInt(0)

\* the pivot condition: |wz| >= 1e-4 and (|vx'| < 1e-4 or |1000 * vx' / wz| <= 1)
PivotCase(vx, wz) ==
  LET v == DeadZoned(vx)
  IN  /\ ~SmallWz(wz)
      /\ \/ Abs(v.n) * 10000 < v.d
         \/ 1000 * Abs(v.n) * wz.d <= Abs(wz.n) * v.d

\* C10: in the pivot branch translate_velocity stores radius = 1 and
\* speed = 1000 * bias * wz / 2 if that magnitude is at least 50, otherwise 50
\* with the sign of the unclamped speed; the stored speed has magnitude >= 50
\* and the sign of wz.  (1000 * bias / 2 = 485 / 2.)
C10_Pivot ==
  \A t \in Threads :
    LET wz == loc[t].wz
        s == speed[this[t]]
    IN  /\ pc[t] = "v_unlock_p" =>
             /\ PivotCase(loc[t].vx, wz)
             /\ radius[this[t]] = RatInt(1)
             /\ IF 485 * Abs(wz.n) >= 50 * 2 * wz.d
                THEN s.n * 2 * wz.d = 485 * wz.n * s.d
                ELSE s = RatInt(50 * Sgn(wz.n))
             /\ Abs(s.n) >= 50 * s.d
             /\ Sgn(s.n) = Sgn(wz.n)
        /\ pc[t] \in {"v_log_g", "v_unlock_g"} => ~PivotCase(loc[t].vx, wz)

\* a pivot whose raw speed 242.5 * (-0.05) = -12.125 is clamped to -50
C10_Witness ==
  \E t \in Threads :
    /\ pc[t] = "v_unlock_p"
    /\ loc[t].vx = RatInt(0) /\ loc[t].wz = Rat(-1, 20)
    /\ speed[this[t]] = RatInt(-50) /\ radius[this[t]] = RatInt(1)

\* C11: the dead-zone rule is applied before the branch is selected: a call
\* translate_velocity(vx, wz) with |vx| < 0.1 and |wz| >= 1e-4 continues with
\* vx = 0, takes the pivot branch and stores radius = 1; it never takes the
\* general-turn branch.
C11_DeadZoneBeforeBranch ==
  \A t \in Threads :
    (/\ pc[t] \in PastStraight \ {"v_pivot"}
     /\ Abs(loc[t].vx.n) * 10 < loc[t].vx.d
     /\ Abs(loc[t].wz.n) * 10000 >= loc[t].wz.d)
    => /\ loc[t].vx_ = RatInt(0)
       /\ pc[t] \in {"v_unlock_p", "v_log_p", "v_ret_p"}
       /\ pc[t] = "v_unlock_p" => radius[this[t]] = RatInt(1)
       /\ loc[t].stored[2] = RatInt(1)

\* vx = 0.05, wz = 1: without the dead zone the radius would be 50 and the
\* turn a general one
C11_Witness ==
  \E t \in Threads :
    /\ pc[t] = "v_unlock_p"
    /\ loc[t].vx = Rat(1, 20) /\ loc[t].wz = RatInt(1)
    /\ loc[t].vx_ = RatInt(0)
    /\ radius[this[t]] = RatInt(1)

\* C12: when neither the straight-line nor the pivot branch matches,
\* translate_velocity stores radius = 1000 * vx' / wz and
\* speed = (radius + sign(radius) * 1000 * bias / 2) * wz, vx' being vx after the
\* dead-zone rule.  The speed is compared in its expanded form
\* 1000 * vx' + sign(radius) * 242.5 * wz.
C12_GeneralTurn ==
  \A t \in Threads :
    pc[t] \in {"v_log_g", "v_unlock_g"} =>
      LET i == this[t]
          wz == loc[t].wz
          v == DeadZoned(loc[t].vx)
          r == radius[i]
      IN  /\ ~SmallWz(wz) /\ ~PivotCase(loc[t].vx, wz)
          /\ IsFinite(r) /\ r.n # 0
          /\ r.n * wz.n * v.d = 1000 * v.n * wz.d * r.d
          /\ speed[i] = RatAdd(RatMul(RatInt(1000), v),
                               RatMul(Rat(485 * Sgn(r.n), 2), wz))

\* vx = -0.5, wz = 0.3: radius = -5000/3 and
\* speed = (-5000/3 - 242.5) * 0.3 = -572.75
C12_Witness ==
  \E t \in Threads :
    /\ pc[t] = "v_unlock_g"
    /\ loc[t].vx = Rat(-1, 2) /\ loc[t].wz = Rat(3, 10)
    /\ radius[this[t]] = Rat(-5000, 3)
    /\ speed[this[t]] = Rat(-2291, 4)

\* the integer c is the rational value truncated toward zero
TruncatedTowardZero(c, value) ==
  /\ Abs(c) * value.d <= Abs(value.n)
  /\ Abs(value.n) < (Abs(c) + 1) * value.d
  /\ c # 0 => Sgn(c) = Sgn(value.n)

\* the integer c is the stored value clamped to [-32768, 32767] and truncated
BoundedFrom(c, value) ==
  /\ c \in SHRT_MIN..SHRT_MAX
  /\ IF value.n > SHRT_MAX * value.d THEN c = SHRT_MAX
     ELSE IF value.n < SHRT_MIN * value.d THEN c = SHRT_MIN
     ELSE TruncatedTowardZero(c, value)

\* C13: get_firmware_command returns a (speed, radius) pair whose components
\* are within [-32768, 32767]: a stored value above 32767 is returned as
\* 32767, one below -32768 as -32768, any other one truncated toward zero.
C13_BoundedPair ==
  \A t \in Threads :
    pc[t] = "c_unlock" =>
      /\ IsFinite(speed[this[t]]) /\ IsFinite(radius[this[t]])
      /\ BoundedFrom(loc[t].cmd[1], speed[this[t]])
      /\ BoundedFrom(loc[t].cmd[2], radius[this[t]])

\* after translate_velocity(-0.5, 0.0001): speed = -500.02425 is returned as
\* -500 and radius = -5000000 as -32768
C13_Witness ==
  \E t \in Threads :
    /\ pc[t] = "c_unlock"
    /\ radius[this[t]] = RatInt(-5000000)
    /\ speed[this[t]] = Rat(-2000097, 4000)
    /\ loc[t].cmd = <<-500, SHRT_MIN>>

\* after translate_velocity(40, 0.0001): speed = 40000.02425 and
\* radius = 400000000 are both returned as 32767
C13_WitnessUpper ==
  \E t \in Threads :
    /\ pc[t] = "c_unlock"
    /\ radius[this[t]] = RatInt(400000000)
    /\ loc[t].cmd = <<SHRT_MAX, SHRT_MAX>>

\* C20: the radius sentinels are unambiguous: the radius a translate_velocity
\* call has stored is 0 exactly when the call took the straight-line branch and
\* 1 exactly when it took the pivot branch; in the general-turn branch it
\* satisfies |radius| > 1.
C20_SentinelsUnambiguous ==
  \A t \in Threads :
    LET r == radius[this[t]]
    IN  pc[t] \in {"v_unlock_s", "v_unlock_p", "v_log_g", "v_unlock_g"} =>
          /\ r = loc[t].stored[2]
          /\ r = RatInt(0) <=> pc[t] = "v_unlock_s"
          /\ r = RatInt(1) <=> pc[t] = "v_unlock_p"
          /\ pc[t] \in {"v_log_g", "v_unlock_g"} => IsFinite(r) /\ Abs(r.n) > r.d

\* vx = 0.1, wz = 100 gives 1000 * vx / wz = 1 exactly: the call pivots
C20_Witness ==
  \E t \in Threads :
    /\ pc[t] = "v_unlock_p"
    /\ loc[t].vx = Rat(1, 10) /\ loc[t].wz = RatInt(100)
    /\ radius[this[t]] = RatInt(1)

\* C16: set_raw_firmware_command(speed, radius) bypasses the branch policy: a
\* get_firmware_command that reads the command with no write in between
\* returns exactly the pair of 16-bit values that was passed in.
C16_RawPassThrough ==
  \A t \in Threads :
    (pc[t] = "c_unlock" /\ last_write[this[t]].by = "velocityCommandsRaw")
    => loc[t].cmd = last_write[this[t]].args

\* the raw pair (20, 1) comes back as it is: no dead zone, and no clamp of
\* the speed to 50 although the radius is the pivot sentinel
C16_Witness ==
  \E t \in Threads :
    /\ pc[t] = "c_unlock"
    /\ last_write[this[t]].by = "velocityCommandsRaw"
    /\ last_write[this[t]].args = <<20, 1>>
    /\ loc[t].cmd = <<20, 1>>

\* C15 as stated: no update decreases the accumulated angle of either wheel.
C15_AngleNeverDecreases ==
  \A t \in Threads :
    InUpdate(t) =>
      /\ last_rad_left[this[t]] >= loc[t].old_rad_left
      /\ last_rad_right[this[t]] >= loc[t].old_rad_right

\* C15: an update after the first changes each wheel's accumulated angle by
\* the tick-to-radian factor times the signed wrap-corrected tick delta of that
\* wheel: the angle decreases exactly when the delta is negative (the wheel
\* turned backwards) and never decreases otherwise.
C15_AngleFollowsSignedDelta ==
  \A t \in Threads :
    (InUpdate(t) /\ ~loc[t].first) =>
      LET dl == WrappedDelta(loc[t].left_encoder, loc[t].prev[2])
          dr == WrappedDelta(loc[t].right_encoder, loc[t].prev[3])
      IN  /\ last_rad_left[this[t]] - loc[t].old_rad_left = tick_to_rad * dl
          /\ last_rad_right[this[t]] - loc[t].old_rad_right = tick_to_rad * dr
          /\ last_rad_left[this[t]] < loc[t].old_rad_left <=> dl < 0
          /\ last_rad_right[this[t]] < loc[t].old_rad_right <=> dr < 0

\* the left ticks go from 0 back to 65535 (delta -1) and the left angle drops
\* by one tick; the right ticks go from 0 to 32768 (delta -32768)
C15_Witness ==
  \E t \in Threads :
    /\ InUpdate(t) /\ ~loc[t].first
    /\ loc[t].prev[2] = 0 /\ loc[t].left_encoder = 65535
    /\ last_rad_left[this[t]] = loc[t].old_rad_left - tick_to_rad
    /\ loc[t].prev[3] = 0 /\ loc[t].right_encoder = 32768
    /\ last_rad_right[this[t]] < loc[t].old_rad_right

\* C17: after any sequence of update and reset calls each wheel's accumulated
\* angle equals the tick-to-radian factor times the sum of that wheel's
\* wrap-corrected tick deltas over the updates since the last reset (or since
\* construction), and the per-wheel displacement an update hands to the
\* kinematics primitive is exactly the increment it added to that wheel's angle.
C17_AngleIsScaledTickSum ==
  /\ \A i \in Instances :
       /\ last_rad_left[i] = tick_to_rad * ticks_since_reset[i][1]
       /\ last_rad_right[i] = tick_to_rad * ticks_since_reset[i][2]
  /\ \A t \in Threads :
       /\ pc[t] = "u_time" =>
            loc[t].pose_update = poseUpdateFromWheelDifferential(
                                   last_rad_left[this[t]] - loc[t].old_rad_left,
                                   last_rad_right[this[t]] - loc[t].old_rad_right)
       /\ (InUpdate(t) /\ ~loc[t].first) =>
            /\ loc[t].left_diff_ticks =
                 WrappedDelta(loc[t].left_encoder, loc[t].prev[2])
            /\ ticks_since_reset[this[t]][1] * tick_to_rad - loc[t].old_rad_left
                 = tick_to_rad * WrappedDelta(loc[t].left_encoder, loc[t].prev[2])
            /\ ticks_since_reset[this[t]][2] * tick_to_rad - loc[t].old_rad_right
                 = tick_to_rad * WrappedDelta(loc[t].right_encoder, loc[t].prev[3])

\* update, reset, update: the angles hold only the deltas of the update after
\* the reset (+1 tick left, -32768 ticks right)
C17_Witness ==
  \E t \in Threads :
    /\ InUpdate(t) /\ ~loc[t].first /\ loc[t].after_reset
    /\ ticks_since_reset[this[t]] = <<1, -32768>>
    /\ last_rad_left[this[t]] = tick_to_rad
    /\ last_rad_right[this[t]] = -32768 * tick_to_rad

\* update() or reset() is between its lock and its unlock on object i
WritingOdometry(t, i) ==
  this[t] = i /\ pc[t] \in {"u_ticks", "u_time", "u_unlock", "r_body", "r_unlock"}

\* C14: the four values get_wheel_joint_states returns are a consistent
\* snapshot under any interleaving with update and reset: when the call has
\* read all four, they are the angles and rates the object holds at that one
\* instant, and no update or reset of the object is part-way through its writes.
C14_ConsistentSnapshot ==
  \A t \in Threads :
    LET i == this[t]
    IN  /\ pc[t] \in {"g_rates", "g_unlock"} =>
             /\ loc[t].wheel_left_angle = last_rad_left[i]
             /\ loc[t].wheel_right_angle = last_rad_right[i]
             /\ \A u \in Threads \ {t} : ~WritingOdometry(u, i)
        /\ pc[t] = "g_unlock" =>
             /\ loc[t].wheel_left_angle_rate = last_velocity_left[i]
             /\ loc[t].wheel_right_angle_rate = last_velocity_right[i]

\* a snapshot with moved wheels, taken while the other thread's update() call
\* on the same object has finished its writes and not yet returned
C14_Witness ==
  \E t \in Threads :
    /\ pc[t] = "g_unlock"
    /\ loc[t].wheel_left_angle # 0 /\ loc[t].wheel_left_angle_rate # RatInt(0)
    /\ \E u \in Threads \ {t} : this[u] = this[t] /\ pc[u] = "u_ret"

\* translate_velocity has written its log line
Logged(t) == pc[t] \in {"v_ret_s", "v_ret_p", "v_unlock_g", "v_ret_g"}

\* C18: the (speed, radius) pair a translate_velocity call logs is the pair
\* that same call has stored, on every branch and under any interleaving with
\* concurrent translate_velocity and set_raw_firmware_command calls.
C18_LogsWhatItStored ==
  \A t \in Threads :
    Logged(t) => <<loc[t].log_speed, loc[t].log_radius>> = loc[t].stored

\* a writer of (speed, radius) is between its lock and its unlock on object i
WritingCommand(t, i) ==
  this[t] = i /\ pc[t] \in {"v_straight", "v_pivot", "v_unlock_s", "v_unlock_p", "v_log_g",
                            "v_unlock_g", "w_body", "w_unlock"}

\* C19: get_firmware_command always returns the bounded pair of one single
\* completed write (one translate_velocity call, one set_raw_firmware_command
\* call, or the initial (0, 0)): never the speed of one write with the radius
\* of another, and never the provisional radius 1000 * vx / wz that the
\* translator stores before its pivot test overwrites it with 1.
C19_PairOfOneWrite ==
  \A t \in Threads :
    pc[t] = "c_unlock" =>
      /\ loc[t].cmd = <<bound(last_write[this[t]].pair[1]),
                        bound(last_write[this[t]].pair[2])>>
      /\ \A u \in Threads \ {t} : ~WritingCommand(u, this[t])

\* the getter returns the pivot pair (50, 1) of a completed translate call
\* while the other thread waits for velocity_mutex to write
C19_Witness ==
  \E t \in Threads :
    /\ pc[t] = "c_unlock"
    /\ last_write[this[t]].by = "velocityCommands"
    /\ loc[t].cmd = <<50, 1>>
    /\ \E u \in Threads \ {t} : this[u] = this[t] /\ pc[u] \in {"v_lock", "w_lock"}

====
